---- MODULE Spec2Model ----
(***************************************************************************)
(* Model of src/main.c of https_dns_proxy: the UDP-to-HTTPS proxy          *)
(* orchestrator (startup policy, query dispatch, fetch completion, poll    *)
(* result handling, shutdown).  C strings are sequences of one-character   *)
(* strings; pointers are heap indices with 0 for NULL.                     *)
(***************************************************************************)
EXTENDS Integers, Sequences, FiniteSets, Bags, TLC

VARIABLES
  opt,         \* struct Options: curl_proxy, resolver_url (immutable snapshot)
  pc,          \* position of main()
  app,         \* app_state_t: using_dns_poller, resolv, resolver_url
  hostname,    \* char hostname[255] of main()
  poller,      \* dns_poller_t: inited, cleanups
  slist,       \* heap of struct curl_slist nodes
  npolls,      \* number of poll results delivered so far
  bufs,        \* heap of query buffers handed to dns_server_cb
  reqs,        \* heap of request_t records
  fetches,     \* every https_client_fetch call, with its completion
  replies,     \* every dns_server_respond call
  drops,       \* number of queries discarded by the bootstrap gate
  uaf,         \* a freed request_t or buffer was read
  shutdown,    \* cleanup calls made by main() after ev_run returned
  elog         \* the error lines written to the log

vars == <<opt, pc, app, hostname, poller, slist, npolls, bufs, reqs,
          fetches, replies, drops, uaf, shutdown, elog>>

-----------------------------------------------------------------------------
(* Bounds of the model.                                                    *)

MaxQueries == 2
MaxPolls == 2
MaxHostLen == 3

-----------------------------------------------------------------------------
(* Program constants.                                                      *)

HostnameLen == 254
MaxPollHostname == 254
PollBufSize == 280

NULL == 0
NULLSTR == <<"(null)">>
Uninit == <<>>

-----------------------------------------------------------------------------
(* C library string helpers, as main.c uses them.                          *)

Upper == <<"A","B","C","D","E","F","G","H","I","J","K","L","M",
           "N","O","P","Q","R","S","T","U","V","W","X","Y","Z">>
Lower == <<"a","b","c","d","e","f","g","h","i","j","k","l","m",
           "n","o","p","q","r","s","t","u","v","w","x","y","z">>

isalpha(c) == \E i \in 1..26 : c = Upper[i] \/ c = Lower[i]

tolower(c) == IF \E i \in 1..26 : c = Upper[i]
              THEN Lower[CHOOSE i \in 1..26 : c = Upper[i]]
              ELSE c

\* The character at 1-based position i, "NUL" at and past the terminator.
CharAt(s, i) == IF i <= Len(s) THEN s[i] ELSE "NUL"

RECURSIVE StrNCmpFrom(_, _, _, _)
StrNCmpFrom(a, b, n, i) ==
  IF i > n THEN 0
  ELSE IF CharAt(a, i) # CharAt(b, i) THEN 1
  ELSE IF CharAt(a, i) = "NUL" THEN 0
  ELSE StrNCmpFrom(a, b, n, i + 1)

\* 0 when the first n characters agree, non-zero (1) otherwise.
strncmp(a, b, n) == StrNCmpFrom(a, b, n, 1)

RECURSIVE StrNCaseCmpFrom(_, _, _, _)
StrNCaseCmpFrom(a, b, n, i) ==
  IF i > n THEN 0
  ELSE IF tolower(CharAt(a, i)) # tolower(CharAt(b, i)) THEN 1
  ELSE IF CharAt(a, i) = "NUL" THEN 0
  ELSE StrNCaseCmpFrom(a, b, n, i + 1)

strncasecmp(a, b, n) == StrNCaseCmpFrom(a, b, n, 1)

-----------------------------------------------------------------------------
(* hostname_from_uri and proxy_supports_name_resolution.                   *)

HttpsScheme == <<"h","t","t","p","s",":","/","/">>

\* while (*end && *end != '/') end++;  the first position from start on
\* (1-based, in uri) that holds the terminator or a '/'.
ScanEnd(uri, start) ==
  CHOOSE end \in start..(Len(uri) + 1) :
    /\ CharAt(uri, end) = "NUL" \/ CharAt(uri, end) = "/"
    /\ \A j \in start..(end - 1) :
         CharAt(uri, j) # "NUL" /\ CharAt(uri, j) # "/"

\* Result: ok (the return value) and the hostname buffer afterwards; the
\* buffer is left as it was (buf) on every failure path.
hostname_from_uri_skipalpha(uri, buf, hostname_len) ==
  IF strncmp(uri, HttpsScheme, 8) # 0 THEN [ok |-> 0, hostname |-> buf]
  ELSE LET start == 9
           end == ScanEnd(uri, start)
       IN IF end - start >= hostname_len THEN [ok |-> 0, hostname |-> buf]
          ELSE IF end = start THEN [ok |-> 0, hostname |-> buf]
          ELSE [ok |-> 1, hostname |-> SubSeq(uri, start, end - 1)]

hostname_from_uri(uri, buf, hostname_len) ==
  IF strncmp(uri, HttpsScheme, 8) # 0 THEN [ok |-> 0, hostname |-> buf]
  ELSE LET start == 9
           end == ScanEnd(uri, start)
       IN IF end - start >= hostname_len THEN [ok |-> 0, hostname |-> buf]
          ELSE IF end = start THEN [ok |-> 0, hostname |-> buf]
          ELSE IF ~isalpha(uri[end - 1]) THEN [ok |-> 0, hostname |-> buf]
          ELSE [ok |-> 1, hostname |-> SubSeq(uri, start, end - 1)]

ptypes == << <<"h","t","t","p",":">>,
             <<"h","t","t","p","s",":">>,
             <<"s","o","c","k","s","4","a",":">>,
             <<"s","o","c","k","s","5","h",":">> >>

proxy_supports_name_resolution_casesens(proxy) ==
  IF proxy = NULLSTR THEN 0
  ELSE IF \E i \in 1..Len(ptypes) :
            strncmp(proxy, ptypes[i], Len(ptypes[i])) = 0
       THEN 1 ELSE 0

proxy_supports_name_resolution(proxy) ==
  IF proxy = NULLSTR THEN 0
  ELSE IF \E i \in 1..Len(ptypes) :
            strncasecmp(proxy, ptypes[i], Len(ptypes[i])) = 0
       THEN 1 ELSE 0

-----------------------------------------------------------------------------
(* Inputs of the environment.                                              *)

AF_INET == 2
AF_INET6 == 10

\* opt.curl_proxy values (NULLSTR: no proxy configured).
ProxyHttpUpper  == <<"H","T","T","P",":","/","/","p">>
ProxyHttps      == <<"h","t","t","p","s",":","/","/","p">>
ProxySocks4a    == <<"S","o","c","k","s","4","a",":","/","/","p">>
ProxySocks5h    == <<"s","o","c","k","s","5","h",":","/","/","p">>
ProxySocks5     == <<"s","o","c","k","s","5",":","/","/","p">>
ProxySocks4     == <<"s","o","c","k","s","4",":","/","/","p">>
ProxyHttpNoColon == <<"h","t","t","p">>

\* opt.resolver_url values.
UrlDnsGoogle == HttpsScheme \o <<"d","n","s",".","g","o","o","g","l","e">>
                \o <<"/","r","e","s","o","l","v","e">>
UrlLiteral   == HttpsScheme \o <<"8",".","8",".","8",".","8">>
                \o <<"/","r","e","s","o","l","v","e">>
UrlLongHost(n) == HttpsScheme \o [i \in 1..n |-> "a"] \o <<"/","q">>

\* The configurations the reactor is explored under: polling active; no
\* poller because the URL holds a literal address; no poller because the
\* proxy resolves names.
Configs == { <<NULLSTR, UrlDnsGoogle>>,
             <<NULLSTR, UrlLiteral>>,
             <<ProxyHttps, UrlDnsGoogle>> }

\* Datagrams clients send: a source address (an opaque sockaddr value) and
\* the bytes, whose first two are the transaction id.  The two clients use
\* the same transaction id for different queries, and each may repeat its
\* datagram.
Datagrams == { <<"client1", <<18, 52, 1>>>>,
               <<"client2", <<18, 52, 2, 0>>>> }

\* Response bodies the HTTPS transport can deliver, by buffer id; id NULL is
\* the null response of a failed fetch.
RespBytes == << <<18, 52, 7, 7>>, <<18, 52, 9>> >>
RespBufs == 1..Len(RespBytes)

\* Addresses a poll can resolve to (IPv4, as four octets).
PollAddrs == { <<8, 8, 8, 8>>, <<8, 8, 4, 4>> }

-----------------------------------------------------------------------------
(* Collaborators of main.c, at their interface.                            *)

Digit == <<"0","1","2","3","4","5","6","7","8","9">>

RECURSIVE Dec(_)
Dec(n) == IF n < 10 THEN <<Digit[n + 1]>>
          ELSE Dec(n \div 10) \o <<Digit[(n % 10) + 1]>>

\* Dotted quad of four octets.
DottedQuad(o) ==
  Dec(o[1]) \o <<".">> \o Dec(o[2]) \o <<".">> \o
  Dec(o[3]) \o <<".">> \o Dec(o[4])

HexDigit == <<"0","1","2","3","4","5","6","7","8","9",
              "a","b","c","d","e","f">>

\* "%x" of a 16-bit word.
RECURSIVE Hex(_)
Hex(n) == IF n < 16 THEN <<HexDigit[n + 1]>>
          ELSE Hex(n \div 16) \o <<HexDigit[(n % 16) + 1]>>

\* Length of the run of zero words of w that starts at word i.
RECURSIVE ZeroRun(_, _)
ZeroRun(w, i) ==
  IF i > Len(w) \/ w[i] # 0 THEN 0 ELSE 1 + ZeroRun(w, i + 1)

\* The first longest run of at least two zero words, as base and length;
\* base 0 when there is none.
BestRun(w) ==
  LET len == CHOOSE m \in 0..Len(w) :
               /\ \E i \in 1..Len(w) : ZeroRun(w, i) = m
               /\ \A i \in 1..Len(w) : ZeroRun(w, i) <= m
  IN IF len < 2 THEN [base |-> 0, len |-> 0]
     ELSE [base |-> CHOOSE i \in 1..Len(w) :
                      /\ ZeroRun(w, i) = len
                      /\ \A j \in 1..(i - 1) : ZeroRun(w, j) < len,
           len |-> len]

\* inet_ntop for AF_INET6 on the eight words w, from word i on: the longest
\* zero run is written "::", an IPv4-compatible or IPv4-mapped address ends
\* in a dotted quad.
RECURSIVE Ntop6(_, _, _)
Ntop6(w, i, best) ==
  IF i > 8
  THEN IF best.base # 0 /\ best.base + best.len = 9 THEN <<":">> ELSE <<>>
  ELSE IF best.base # 0 /\ i >= best.base /\ i < best.base + best.len
  THEN (IF i = best.base THEN <<":">> ELSE <<>>) \o Ntop6(w, i + 1, best)
  ELSE (IF i # 1 THEN <<":">> ELSE <<>>) \o
       (IF /\ i = 7
           /\ best.base = 1
           /\ \/ best.len = 6
              \/ best.len = 7 /\ w[8] # 1
              \/ best.len = 5 /\ w[6] = 65535
        THEN DottedQuad(<<w[7] \div 256, w[7] % 256,
                          w[8] \div 256, w[8] % 256>>)
        ELSE Hex(w[i]) \o Ntop6(w, i + 1, best))

\* The textual form of an address of family af: four octets for AF_INET,
\* eight 16-bit words for AF_INET6.
AddrText(af, addr) ==
  IF af = AF_INET6 THEN Ntop6(addr, 1, BestRun(addr)) ELSE DottedQuad(addr)

\* ares_inet_ntop(af, addr, dst, size): writes the text and its terminator
\* when they fit in size bytes, and otherwise fails leaving dst untouched.
ares_inet_ntop(af, addr, size) ==
  LET text == AddrText(af, addr)
  IN IF Len(text) >= size THEN [ok |-> 0, text |-> <<>>]
     ELSE [ok |-> 1, text |-> text]

\* snprintf(buf, size, ...): at most size - 1 characters are written.
snprintf(size, text) ==
  IF Len(text) > size - 1 THEN SubSeq(text, 1, size - 1) ELSE text

\* The entries of the list headed by node id, first to last.
RECURSIVE SlistData(_, _)
SlistData(heap, id) ==
  IF id = NULL THEN <<>>
  ELSE <<heap[id].data>> \o SlistData(heap, heap[id].next)

\* What a freed string holds: nothing that may be relied on.
Freed == <<"(freed)">>

\* curl_slist_free_all(list): frees every node of the chain and its string.
RECURSIVE curl_slist_free_all(_, _)
curl_slist_free_all(heap, id) ==
  IF id = NULL THEN heap
  ELSE curl_slist_free_all(
         [heap EXCEPT ![id].frees = @ + 1, ![id].data = Freed],
         heap[id].next)

\* curl_slist_append(list, data): a new last node holding a copy of data;
\* NULL, with the list untouched, when the allocation fails.
RECURSIVE SlistLast(_, _)
SlistLast(heap, id) ==
  IF heap[id].next = NULL THEN id ELSE SlistLast(heap, heap[id].next)

curl_slist_append(heap, list, data, alloc_ok, poll) ==
  IF ~alloc_ok THEN [heap |-> heap, list |-> NULL]
  ELSE LET n == Len(heap) + 1
           node == [data |-> data, next |-> NULL, frees |-> 0, poll |-> poll]
           h1 == Append(heap, node)
       IN IF list = NULL THEN [heap |-> h1, list |-> n]
          ELSE [heap |-> [h1 EXCEPT ![SlistLast(heap, list)].next = n],
                list |-> list]

\* The transaction id the UDP server extracts from a datagram.
TxId(bytes) == bytes[1] * 256 + bytes[2]

-----------------------------------------------------------------------------
(* Startup: main() up to ev_run.                                           *)

\* The state at line 208 of main(): options parsed, app initialised (lines
\* 175-179), server and signal watchers started, nothing received yet.
InitFrom(configs) ==
  /\ opt \in {[curl_proxy |-> c[1], resolver_url |-> c[2]] : c \in configs}
  /\ pc = "start"
  /\ app = [using_dns_poller |-> 0, resolv |-> NULL,
            resolver_url |-> opt.resolver_url]
  /\ hostname = Uninit
  /\ poller = [inited |-> FALSE, cleanups |-> 0]
  /\ slist = <<>>
  /\ npolls = 0
  /\ bufs = <<>>
  /\ reqs = <<>>
  /\ fetches = <<>>
  /\ replies = EmptyBag
  /\ drops = 0
  /\ uaf = FALSE
  /\ shutdown = <<>>
  /\ elog = {}

Init == InitFrom(Configs)

\* main(), lines 208-221: decide once whether bootstrap polling is used, then
\* enter the reactor.
Startup ==
  /\ pc = "start"
  /\ IF proxy_supports_name_resolution(opt.curl_proxy) = 0
     THEN LET r == hostname_from_uri(opt.resolver_url, hostname, HostnameLen)
          IN /\ hostname' = r.hostname
             /\ IF r.ok # 0
                THEN /\ app' = [app EXCEPT !.using_dns_poller = 1]
                     /\ poller' = [poller EXCEPT !.inited = TRUE]
                ELSE UNCHANGED <<app, poller>>
     ELSE UNCHANGED <<app, poller, hostname>>
  /\ pc' = "run"
  /\ UNCHANGED <<elog, opt, slist, npolls, bufs, reqs, fetches, replies, drops,
                 uaf, shutdown>>

-----------------------------------------------------------------------------
(* dns_server_cb: a query arrives from the UDP server.                     *)

\* Line 101: the reactor is not yet bootstrapped.
not_bootstrapped_nogate(a, heap) == FALSE

not_bootstrapped_ignoring_flag(a, heap) ==
  a.resolv = NULL \/ heap[a.resolv].data = NULLSTR

not_bootstrapped(a, heap) ==
  a.using_dns_poller # 0 /\ (a.resolv = NULL \/ heap[a.resolv].data = NULLSTR)

\* free(p) of a query buffer: its bytes are gone.
free(bf, b) == [bf EXCEPT ![b].frees = @ + 1, ![b].bytes = <<>>]

\* Lines 115-116: the arguments of https_client_fetch.
fetch_args_truncated(a, b, dns_req_len, r) ==
  [url |-> a.resolver_url, data |-> b, datalen |-> dns_req_len - 1,
   resolv |-> a.resolv, cb_data |-> r]

fetch_args(a, b, dns_req_len, r) ==
  [url |-> a.resolver_url, data |-> b, datalen |-> dns_req_len,
   resolv |-> a.resolv, cb_data |-> r]

\* https_client_fetch: the transport records the call; it reads the body
\* and the address override it was handed.
https_client_fetch(log, args, bf, heap, poll) ==
  Append(log, [url |-> args.url, data |-> args.data,
               datalen |-> args.datalen,
               body |-> SubSeq(bf[args.data].bytes, 1, args.datalen),
               resolv |-> args.resolv,
               resolv_data |-> SlistData(heap, args.resolv),
               cb_data |-> args.cb_data, at_poll |-> poll,
               done |-> FALSE, abandoned |-> FALSE,
               buf |-> NULL, buflen |-> 0])

\* The request_t filled in by lines 107-114.
new_request(addr, tx_id, b) ==
  [tx_id |-> tx_id, raddr |-> addr, dns_server |-> "dns_server",
   dns_req |-> b, frees |-> 0]

\* The UDP server hands over a datagram from addr in a fresh buffer;
\* calloc_ok is whether calloc (line 107) returns memory.  FLOG ends the
\* process, and its memory with it.
dns_server_cb_takes_override(addr, bytes, calloc_ok) ==
  /\ pc = "run"
  /\ Len(bufs) < MaxQueries
  /\ LET b == Len(bufs) + 1
         tx_id == TxId(bytes)
         dns_req_len == Len(bytes)
         bf == Append(bufs, [bytes |-> bytes, frees |-> 0])
     IN IF not_bootstrapped(app, slist)
        THEN /\ bufs' = free(bf, b)
             /\ drops' = drops + 1
             /\ UNCHANGED <<pc, reqs, fetches>>
        ELSE IF ~calloc_ok
        THEN /\ pc' = "aborted"
             /\ UNCHANGED <<bufs, reqs, fetches, drops>>
        ELSE LET r == Len(reqs) + 1
             IN /\ bufs' = bf
                /\ reqs' = Append(reqs, new_request(addr, tx_id, b))
                /\ fetches' = https_client_fetch(fetches,
                                 fetch_args(app, b, dns_req_len, r),
                                 bf, slist, npolls)
                /\ UNCHANGED <<pc, drops>>
  /\ app' = [app EXCEPT !.resolv =
                IF not_bootstrapped(app, slist) \/ ~calloc_ok THEN @ ELSE NULL]
  /\ UNCHANGED <<elog, opt, hostname, poller, slist, npolls, replies, uaf,
                 shutdown>>

dns_server_cb(addr, bytes, calloc_ok) ==
  /\ pc = "run"
  /\ Len(bufs) < MaxQueries
  /\ LET b == Len(bufs) + 1
         tx_id == TxId(bytes)
         dns_req_len == Len(bytes)
         bf == Append(bufs, [bytes |-> bytes, frees |-> 0])
     IN IF not_bootstrapped(app, slist)
        THEN /\ bufs' = free(bf, b)
             /\ drops' = drops + 1
             /\ UNCHANGED <<pc, reqs, fetches>>
        ELSE IF ~calloc_ok
        THEN /\ pc' = "aborted"
             /\ UNCHANGED <<bufs, reqs, fetches, drops>>
        ELSE LET r == Len(reqs) + 1
             IN /\ bufs' = bf
                /\ reqs' = Append(reqs, new_request(addr, tx_id, b))
                /\ fetches' = https_client_fetch(fetches,
                                 fetch_args(app, b, dns_req_len, r),
                                 bf, slist, npolls)
                /\ UNCHANGED <<pc, drops>>
  /\ UNCHANGED <<elog, opt, app, hostname, poller, slist, npolls, replies, uaf,
                 shutdown>>

-----------------------------------------------------------------------------
(* https_resp_cb: a fetch completes.                                       *)

\* Line 84: respond unless the fetch failed.
should_respond_always(buf) == TRUE

should_respond(buf) == buf # NULL

\* Line 85: the address the reply goes to.
respond_addr_by_tx_id(rq, r) ==
  rq[CHOOSE k \in 1..Len(rq) :
       /\ rq[k].tx_id = rq[r].tx_id
       /\ \A j \in 1..Len(rq) : rq[j].tx_id = rq[r].tx_id => k <= j].raddr

respond_addr(rq, r) == rq[r].raddr

\* dns_server_respond(server, raddr, buf, buflen): one datagram is sent.
\* The datagrams sent are kept as a bag.
dns_server_respond(log, server, raddr, buf, buflen, r) ==
  log (+) SetToBag({[server |-> server, to |-> raddr, buf |-> buf,
                     bytes |-> IF buf = NULL THEN <<>>
                               ELSE SubSeq(RespBytes[buf], 1, buflen),
                     buflen |-> buflen, req |-> r]})

\* Line 87: free(req->dns_req).
free_dns_req_on_success_only(bf, rq, r, buf) ==
  IF buf # NULL THEN free(bf, rq[r].dns_req) ELSE bf

free_dns_req(bf, rq, r, buf) == free(bf, rq[r].dns_req)

\* The state after https_resp_cb(data, buf, buflen) ran on state st, a record
\* of the variables the callback can touch.
https_resp_cb_unless_failed(st, data, buf, buflen) ==
  IF data = NULL THEN [st EXCEPT !.pc = "aborted"]
  ELSE IF buf = NULL THEN st
  ELSE LET req == st.reqs[data]
       IN [st EXCEPT
             !.uaf = @ \/ req.frees > 0 \/ st.bufs[req.dns_req].frees > 0,
             !.replies = dns_server_respond(@, req.dns_server,
                           respond_addr(st.reqs, data), buf, buflen, data),
             !.bufs = free_dns_req(@, st.reqs, data, buf),
             !.reqs = [@ EXCEPT ![data].frees = @ + 1]]

https_resp_cb(st, data, buf, buflen) ==
  IF data = NULL THEN [st EXCEPT !.pc = "aborted"]
  ELSE LET req == st.reqs[data]
       IN [st EXCEPT
             !.uaf = @ \/ req.frees > 0 \/ st.bufs[req.dns_req].frees > 0,
             !.replies = IF should_respond(buf)
                         THEN dns_server_respond(@, req.dns_server,
                                respond_addr(st.reqs, data), buf, buflen, data)
                         ELSE @,
             !.bufs = free_dns_req(@, st.reqs, data, buf),
             !.reqs = [@ EXCEPT ![data].frees = @ + 1]]

CbState == [pc |-> pc, uaf |-> uaf, replies |-> replies, bufs |-> bufs,
            reqs |-> reqs]

\* The transport delivers the one completion of fetch f: a response body
\* (buf in RespBufs) or the null response of a failure or timeout.
FetchComplete(f, buf) ==
  /\ pc = "run"
  /\ f \in 1..Len(fetches)
  /\ ~fetches[f].done
  /\ LET buflen == IF buf = NULL THEN 0 ELSE Len(RespBytes[buf])
         st == https_resp_cb(CbState, fetches[f].cb_data, buf, buflen)
     IN /\ fetches' = [fetches EXCEPT ![f].done = TRUE, ![f].buf = buf,
                                      ![f].buflen = buflen]
        /\ pc' = st.pc
        /\ uaf' = st.uaf
        /\ replies' = st.replies
        /\ bufs' = st.bufs
        /\ reqs' = st.reqs
  /\ UNCHANGED <<elog, opt, app, hostname, poller, slist, npolls, drops, shutdown>>

-----------------------------------------------------------------------------
(* dns_poll_cb: the poller resolved the resolver's hostname.               *)

PortInfix == <<":","4","4","3",":">>

\* Lines 122-127: the text left in buf.  The result of ares_inet_ntop is not
\* looked at: when it fails, buf ends after the port.
poll_entry(host, addr, af) ==
  LET prefix == snprintf(PollBufSize - 1, host \o PortInfix)
      room == PollBufSize - 1 - Len(prefix)
  IN prefix \o ares_inet_ntop(af, addr, room).text

\* Lines 129-130: free the old list, make a new one-entry list.
publish_appending(heap, resolv, buf, alloc_ok, poll) ==
  curl_slist_append(heap, resolv, buf, alloc_ok, poll)

publish(heap, resolv, buf, alloc_ok, poll) ==
  curl_slist_append(curl_slist_free_all(heap, resolv), NULL, buf,
                    alloc_ok, poll)

\* The poller reports addr (of family af) for host; alloc_ok is whether
\* curl_slist_append gets memory.
dns_poll_cb_disables_polling(host, addr, af, alloc_ok) ==
  /\ pc = "run"
  /\ poller.inited /\ poller.cleanups = 0
  /\ npolls < MaxPolls
  /\ npolls' = npolls + 1
  /\ IF Len(host) > MaxPollHostname
     THEN /\ pc' = "aborted"
          /\ UNCHANGED <<app, slist>>
     ELSE LET p == publish(slist, app.resolv, poll_entry(host, addr, af),
                           alloc_ok, npolls + 1)
          IN /\ slist' = p.heap
             /\ app' = [app EXCEPT !.resolv = p.list,
                                   !.using_dns_poller =
                                      IF p.list = NULL THEN 0 ELSE @]
             /\ UNCHANGED pc
  /\ UNCHANGED <<elog, opt, hostname, poller, bufs, reqs, fetches, replies,
                 drops, uaf, shutdown>>

dns_poll_cb(host, addr, af, alloc_ok) ==
  /\ pc = "run"
  /\ poller.inited /\ poller.cleanups = 0
  /\ npolls < MaxPolls
  /\ npolls' = npolls + 1
  /\ IF Len(host) > MaxPollHostname
     THEN /\ pc' = "aborted"
          /\ UNCHANGED <<app, slist>>
     ELSE LET p == publish(slist, app.resolv, poll_entry(host, addr, af),
                           alloc_ok, npolls + 1)
          IN /\ slist' = p.heap
             /\ app' = [app EXCEPT !.resolv = p.list]
             /\ UNCHANGED pc
  /\ UNCHANGED <<elog, opt, hostname, poller, bufs, reqs, fetches, replies, drops,
                 uaf, shutdown>>

-----------------------------------------------------------------------------
(* Signals and shutdown.                                                   *)

\* sigint_cb: ev_break makes ev_run (line 223) return.
sigint_cb ==
  /\ pc = "run"
  /\ pc' = "stopped"
  /\ UNCHANGED <<elog, opt, app, hostname, poller, slist, npolls, bufs, reqs,
                 fetches, replies, drops, uaf, shutdown>>

\* ELOG(...): the line is in the log; the log is kept as the set of its
\* distinct lines.
ELOG(log, line) == log \cup {line}

\* sigpipe_cb: logs and returns.
sigpipe_cb_breaks ==
  /\ pc = "run"
  /\ elog' = ELOG(elog, "Received SIGPIPE. Ignoring.")
  /\ pc' = "stopped"
  /\ UNCHANGED <<opt, app, hostname, poller, slist, npolls, bufs, reqs,
                 fetches, replies, drops, uaf, shutdown>>

sigpipe_cb ==
  /\ pc = "run"
  /\ elog' = ELOG(elog, "Received SIGPIPE. Ignoring.")
  /\ UNCHANGED <<opt, pc, app, hostname, poller, slist, npolls, bufs, reqs,
                 fetches, replies, drops, uaf, shutdown>>

\* Lines 225-227.
CleanupPollerOmitted ==
  /\ pc = "stopped"
  /\ pc' = "free_resolv"
  /\ UNCHANGED <<elog, opt, app, hostname, poller, slist, npolls, bufs, reqs,
                 fetches, replies, drops, uaf, shutdown>>

CleanupPoller ==
  /\ pc = "stopped"
  /\ IF proxy_supports_name_resolution(opt.curl_proxy) = 0
     THEN /\ poller' = [poller EXCEPT !.cleanups = @ + 1]
          /\ shutdown' = Append(shutdown, "dns_poller_cleanup")
     ELSE UNCHANGED <<poller, shutdown>>
  /\ pc' = "free_resolv"
  /\ UNCHANGED <<elog, opt, app, hostname, slist, npolls, bufs, reqs, fetches,
                 replies, drops, uaf>>

\* Line 229.
CleanupResolv ==
  /\ pc = "free_resolv"
  /\ slist' = curl_slist_free_all(slist, app.resolv)
  /\ shutdown' = Append(shutdown, "curl_slist_free_all")
  /\ pc' = "server_cleanup"
  /\ UNCHANGED <<elog, opt, app, hostname, poller, npolls, bufs, reqs, fetches,
                 replies, drops, uaf>>

\* Lines 231-232.
CleanupServer ==
  /\ pc = "server_cleanup"
  /\ shutdown' = Append(shutdown, "dns_server_cleanup")
  /\ pc' = "https_cleanup"
  /\ UNCHANGED <<elog, opt, app, hostname, poller, slist, npolls, bufs, reqs,
                 fetches, replies, drops, uaf>>

\* https_client_cleanup: every fetch still in flight is abandoned, which
\* completes it as a failure (null response) through its callback.
RECURSIVE https_client_cleanup(_, _, _)
https_client_cleanup(st, log, f) ==
  IF f > Len(log) THEN [st |-> st, log |-> log]
  ELSE IF log[f].done THEN https_client_cleanup(st, log, f + 1)
  ELSE https_client_cleanup(
         https_resp_cb(st, log[f].cb_data, NULL, 0),
         [log EXCEPT ![f].done = TRUE, ![f].abandoned = TRUE], f + 1)

\* Line 233 left out.
CleanupHttpsSkipped ==
  /\ pc = "https_cleanup"
  /\ pc' = "loop_destroy"
  /\ UNCHANGED <<elog, opt, app, hostname, poller, slist, npolls, bufs, reqs,
                 fetches, replies, drops, uaf, shutdown>>

\* Line 233.
CleanupHttps ==
  /\ pc = "https_cleanup"
  /\ LET c == https_client_cleanup(CbState, fetches, 1)
     IN /\ fetches' = c.log
        /\ uaf' = c.st.uaf
        /\ replies' = c.st.replies
        /\ bufs' = c.st.bufs
        /\ reqs' = c.st.reqs
        /\ pc' = IF c.st.pc = "aborted" THEN "aborted" ELSE "loop_destroy"
  /\ shutdown' = Append(shutdown, "https_client_cleanup")
  /\ UNCHANGED <<elog, opt, app, hostname, poller, slist, npolls, drops>>

\* Line 235.
LoopDestroy ==
  /\ pc = "loop_destroy"
  /\ shutdown' = Append(shutdown, "ev_loop_destroy")
  /\ pc' = "done"
  /\ UNCHANGED <<elog, opt, app, hostname, poller, slist, npolls, bufs, reqs,
                 fetches, replies, drops, uaf>>

-----------------------------------------------------------------------------
(* The reactor: one event at a time.                                       *)

Next ==
  \/ Startup
  \/ \E d \in Datagrams, calloc_ok \in BOOLEAN :
       dns_server_cb(d[1], d[2], calloc_ok)
  \/ \E f \in 1..Len(fetches), buf \in RespBufs \cup {NULL} :
       FetchComplete(f, buf)
  \/ \E addr \in PollAddrs, alloc_ok \in BOOLEAN :
       dns_poll_cb(hostname, addr, AF_INET, alloc_ok)
  \/ sigint_cb
  \/ sigpipe_cb
  \/ CleanupPoller
  \/ CleanupResolv
  \/ CleanupServer
  \/ CleanupHttps
  \/ LoopDestroy

Spec == Init /\ [][Next]_vars

-----------------------------------------------------------------------------
(* Startup alone, over a wide set of configurations.                       *)

HostChars == {"a", "Z", "1", ".", "/"}

Hosts == UNION {[1..n -> HostChars] : n \in 0..MaxHostLen}

Schemes == { HttpsScheme,
             <<"h","t","t","p",":","/","/">>,
             <<"H","T","T","P","S",":","/","/">>,
             <<"h","t","t","p","s",":","/">>,
             <<>> }

ParseUrls ==
  {s \o h : s \in Schemes, h \in Hosts}
  \cup {UrlDnsGoogle, UrlLiteral,
        UrlLongHost(HostnameLen - 2), UrlLongHost(HostnameLen - 1),
        UrlLongHost(HostnameLen), UrlLongHost(HostnameLen + 1),
        HttpsScheme \o [i \in 1..(HostnameLen - 1) |-> "a"],
        HttpsScheme \o [i \in 1..HostnameLen |-> "a"]}

ParseInit == InitFrom({NULLSTR, ProxySocks5} \X ParseUrls)

ParseNext == Startup

SpecParse == ParseInit /\ [][ParseNext]_vars

-----------------------------------------------------------------------------
(* Every kind of proxy setting, with a reactor that handles at most        *)
(* PolicyEvents queries and PolicyEvents poll results.                     *)

PolicyEvents == 1

UrlPlainHttp == <<"h","t","t","p",":","/","/">>
                \o <<"d","n","s",".","g","o","o","g","l","e","/">>

PolicyProxies == {NULLSTR, <<>>, ProxySocks5, ProxySocks4, ProxyHttpNoColon,
                  ProxyHttpUpper, ProxyHttps, ProxySocks4a, ProxySocks5h}

PolicyInit ==
  InitFrom(PolicyProxies \X {UrlDnsGoogle, UrlLiteral, UrlPlainHttp})

PolicyNext ==
  /\ Next
  /\ Len(bufs') <= PolicyEvents
  /\ npolls' <= PolicyEvents

SpecPolicy == PolicyInit /\ [][PolicyNext]_vars

-----------------------------------------------------------------------------
(* The poller alone: hostnames of every critical length, IPv4 and IPv6     *)
(* results, at most PolicyEvents poll results.                             *)

\* The longest text of an IPv6 address.
MaxV6Text == Len(AddrText(AF_INET6, [i \in 1..8 |-> 65535]))

\* The longest hostname after which dns_poll_cb's buffer still has room
\* for MaxV6Text characters and the terminator.
V6FitLen == PollBufSize - 1 - Len(PortInfix) - MaxV6Text - 1

PollHostLens ==
  (1..3) \cup ((V6FitLen - 2)..(V6FitLen + 2))
         \cup ((HostnameLen - 4)..(HostnameLen - 1))

WidePollAddrs ==
  { [af |-> AF_INET, addr |-> <<8, 8, 8, 8>>],
    [af |-> AF_INET, addr |-> <<255, 255, 255, 255>>],
    [af |-> AF_INET6, addr |-> <<0, 0, 0, 0, 0, 0, 0, 1>>],
    [af |-> AF_INET6, addr |-> <<0, 0, 0, 0, 0, 65535, 2056, 2056>>],
    [af |-> AF_INET6, addr |-> <<8193, 18528, 18528, 0, 0, 0, 0, 34952>>],
    [af |-> AF_INET6, addr |-> <<9734, 18176, 18176, 0, 0, 0, 1, 4369>>],
    [af |-> AF_INET6,
     addr |-> <<8193, 3512, 34211, 4369, 8738, 35374, 880, 29492>>],
    [af |-> AF_INET6, addr |-> [i \in 1..8 |-> 65535]] }

PollInit == InitFrom({NULLSTR} \X {UrlLongHost(n) : n \in PollHostLens})

PollNext ==
  /\ \/ Startup
     \/ \E a \in WidePollAddrs, alloc_ok \in BOOLEAN :
          dns_poll_cb(hostname, a.addr, a.af, alloc_ok)
  /\ npolls' <= PolicyEvents

SpecPoll == PollInit /\ [][PollNext]_vars

-----------------------------------------------------------------------------
(* Properties.                                                             *)

Range(q) == {q[i] : i \in 1..Len(q)}

\* Bootstrap polling is active and no poll result is published.
Unbootstrapped ==
  /\ app.using_dns_poller = 1
  /\ app.resolv = NULL \/ SlistData(slist, app.resolv)[1] = NULLSTR

\* C1.  Fail-closed bootstrap gate: whenever polling is active and no poll
\* result is published, a query delivered to dns_server_cb causes no call
\* of https_client_fetch and no call of dns_server_respond.
C1_FailClosedGate ==
  [][(Unbootstrapped /\ Len(bufs') = Len(bufs) + 1)
       => /\ fetches' = fetches
          /\ replies' = replies
          /\ reqs' = reqs
          /\ drops' = drops + 1]_vars

\* Two queries in sequence were discarded and nothing was fetched or sent.
C1_Witness ==
  /\ Unbootstrapped
  /\ drops >= 2
  /\ fetches = <<>>
  /\ replies = EmptyBag

Fetches == 1..Len(fetches)

Done(f) == fetches[f].done

Succeeded(f) == fetches[f].done /\ fetches[f].buf # NULL

RepliesFor(r) == {rec \in BagToSet(replies) : rec.req = r}

\* C2.  Correlation correctness: each successful completion produces exactly
\* one reply, sent to the source address recorded in the request of the fetch
\* that completed and carrying exactly the bytes and length delivered to that
\* completion; no reply goes out for anything else.
C2_Correlation ==
  /\ \A rec \in BagToSet(replies) :
       /\ CopiesIn(rec, replies) = 1
       /\ \E f \in Fetches :
            /\ fetches[f].cb_data = rec.req
            /\ Succeeded(f)
            /\ rec.buf = fetches[f].buf
            /\ rec.buflen = fetches[f].buflen
            /\ rec.bytes = RespBytes[fetches[f].buf]
       /\ rec.to = reqs[rec.req].raddr
       /\ rec.server = reqs[rec.req].dns_server
  /\ \A f \in Fetches :
       Cardinality(RepliesFor(fetches[f].cb_data))
         = IF Succeeded(f) THEN 1 ELSE 0

\* Two queries with one transaction id from different clients are in flight;
\* the later one completed first and was answered at its own address.
C2_Witness ==
  \E f, g \in Fetches :
    /\ f < g
    /\ ~Done(f) /\ Succeeded(g)
    /\ reqs[fetches[f].cb_data].tx_id = reqs[fetches[g].cb_data].tx_id
    /\ reqs[fetches[f].cb_data].raddr # reqs[fetches[g].cb_data].raddr
    /\ \E rec \in RepliesFor(fetches[g].cb_data) :
         rec.to = reqs[fetches[g].cb_data].raddr

\* The buffers that were handed to a fetch.
Dispatched == {fetches[f].data : f \in Fetches}

\* C3.  No leak, no double free: no query buffer and no request_t is ever
\* freed twice or read after being freed; a buffer is free exactly when it
\* was discarded by the gate or its fetch has completed, a request_t exactly
\* when its fetch has completed; once every fetch has completed nothing is
\* outstanding.
C3_NoLeakNoDoubleFree ==
  /\ ~uaf
  /\ \A b \in 1..Len(bufs) : bufs[b].frees <= 1
  /\ \A r \in 1..Len(reqs) : reqs[r].frees <= 1
  /\ Len(reqs) = Len(fetches)
  /\ Cardinality(Dispatched) = Len(fetches)
  /\ \A f \in Fetches :
       /\ fetches[f].cb_data = f
       /\ reqs[f].dns_req = fetches[f].data
       /\ reqs[f].frees = (IF Done(f) THEN 1 ELSE 0)
       /\ bufs[fetches[f].data].frees = (IF Done(f) THEN 1 ELSE 0)
  /\ \A b \in 1..Len(bufs) : b \notin Dispatched => bufs[b].frees = 1
  /\ Len(bufs) = drops + Len(fetches)
  /\ (\A f \in Fetches : Done(f)) =>
       /\ \A b \in 1..Len(bufs) : bufs[b].frees = 1
       /\ \A r \in 1..Len(reqs) : reqs[r].frees = 1

\* One query was discarded by the gate, a later one was fetched and its
\* fetch has completed: nothing is outstanding.
C3_Witness ==
  /\ drops >= 1
  /\ Len(fetches) >= 1
  /\ \A f \in Fetches : Done(f)
  /\ \A b \in 1..Len(bufs) : bufs[b].frees = 1

\* Fetch f completes with the null response in this step.
FailsNow(f) ==
  /\ f \in Fetches
  /\ ~fetches[f].done
  /\ fetches'[f].done
  /\ fetches'[f].buf = NULL

\* C4.  Silence on fetch failure: a completion with a null response sends no
\* reply, starts no fetch, frees the query buffer and the request_t, and
\* leaves the reactor running.
C4_SilenceOnFailure ==
  [][\A f \in Fetches :
       (pc = "run" /\ FailsNow(f))
         => /\ replies' = replies
            /\ Len(fetches') = Len(fetches)
            /\ bufs[fetches[f].data].frees = 0
            /\ bufs'[fetches[f].data].frees = 1
            /\ reqs[fetches[f].cb_data].frees = 0
            /\ reqs'[fetches[f].cb_data].frees = 1
            /\ pc' = "run"]_vars

\* A fetch failed while the reactor was running; nothing was sent.
C4_Witness ==
  /\ pc = "run"
  /\ replies = EmptyBag
  /\ \E f \in Fetches :
       /\ Done(f) /\ fetches[f].buf = NULL /\ ~fetches[f].abandoned
       /\ bufs[fetches[f].data].frees = 1

\* C5.  Transparent passthrough, one fetch per query: every query that
\* passes the gate causes exactly one fetch, to the configured resolver URL,
\* whose body and length are those of the buffer the UDP server handed over.
C5_Passthrough ==
  /\ pc # "aborted" => Len(fetches) = Len(bufs) - drops
  /\ \A f, g \in Fetches : fetches[f].data = fetches[g].data => f = g
  /\ \A f \in Fetches :
       /\ fetches[f].url = opt.resolver_url
       /\ fetches[f].data \in 1..Len(bufs)
       /\ ~Done(f) =>
            /\ fetches[f].body = bufs[fetches[f].data].bytes
            /\ fetches[f].datalen = Len(bufs[fetches[f].data].bytes)

\* Two different queries are in flight, each with its own bytes.
C5_Witness ==
  \E f, g \in Fetches :
    /\ ~Done(f) /\ ~Done(g)
    /\ fetches[f].body = <<18, 52, 1>> /\ fetches[f].datalen = 3
    /\ fetches[g].body = <<18, 52, 2, 0>> /\ fetches[g].datalen = 4

\* C6.  Address override freshness: with polling active, every fetch is
\* handed the list published by the last poll result before it, holding one
\* complete entry hostname:443:address.
C6_OverrideFreshness ==
  \A f \in Fetches :
    app.using_dns_poller = 1 =>
      /\ fetches[f].resolv # NULL
      /\ fetches[f].at_poll >= 1
      /\ slist[fetches[f].resolv].poll = fetches[f].at_poll
      /\ \E a \in PollAddrs :
           fetches[f].resolv_data =
             <<hostname \o PortInfix \o AddrText(AF_INET, a)>>

\* A fetch started after the first poll result and another after the second,
\* which published a different address.
C6_Witness ==
  \E f, g \in Fetches :
    /\ fetches[f].at_poll = 1
    /\ fetches[g].at_poll = 2
    /\ fetches[f].resolv_data # fetches[g].resolv_data

\* The entry a poll result for address a leaves in the override.
OverrideEntry(a) == hostname \o PortInfix \o AddrText(AF_INET, a)

\* C7.  Wholesale replacement of the override: after any sequence of poll
\* results the override holds exactly one entry, hostname:443:address, built
\* from the most recent poll result; every node of an earlier list is freed.
C7_WholesaleReplacement ==
  (pc = "run" /\ npolls >= 1) =>
    /\ app.resolv # NULL
    /\ \E a \in PollAddrs :
         SlistData(slist, app.resolv) = <<OverrideEntry(a)>>
    /\ slist[app.resolv].poll = npolls
    /\ \A n \in 1..Len(slist) : n # app.resolv => slist[n].frees = 1

\* The schemes of proxies that resolve names themselves.
ResolvingSchemes == { <<"h","t","t","p",":">>,
                      <<"h","t","t","p","s",":">>,
                      <<"s","o","c","k","s","4","a",":">>,
                      <<"s","o","c","k","s","5","h",":">> }

BeginsWithNoCase(s, pre) ==
  /\ Len(s) >= Len(pre)
  /\ \A i \in 1..Len(pre) : tolower(s[i]) = tolower(pre[i])

PolicyActive ==
  /\ \/ opt.curl_proxy = NULLSTR
     \/ \A p \in ResolvingSchemes : ~BeginsWithNoCase(opt.curl_proxy, p)
  /\ hostname_from_uri(opt.resolver_url, Uninit, HostnameLen).ok # 0

\* C8.  Activation policy: using_dns_poller is 0 before startup decides and,
\* from then on and for as long as the process lives, 1 exactly when the
\* proxy is absent or names none of the resolving schemes (ignoring case)
\* and hostname_from_uri succeeds on the resolver URL; the poller is started
\* exactly then.
C8_ActivationPolicy ==
  /\ app.using_dns_poller \in {0, 1}
  /\ pc = "start" => app.using_dns_poller = 0
  /\ pc # "start" => (app.using_dns_poller = 1 <=> PolicyActive)
  /\ poller.inited <=> app.using_dns_poller = 1
  /\ app.resolver_url = opt.resolver_url

\* Polling is active behind a proxy that does not resolve names, and the
\* reactor has since handled a poll result and a query.
C8_Witness ==
  /\ pc = "run"
  /\ opt.curl_proxy = ProxySocks5
  /\ app.using_dns_poller = 1
  /\ npolls >= 1
  /\ Len(fetches) >= 1

\* The host part of a URL: what follows the scheme, up to the first '/' or
\* the end.
UrlHostPart(u) ==
  LET rest == SubSeq(u, Len(HttpsScheme) + 1, Len(u))
      slashes == {i \in 1..Len(rest) : rest[i] = "/"}
      n == IF slashes = {} THEN Len(rest)
           ELSE (CHOOSE i \in slashes : \A j \in slashes : i <= j) - 1
  IN SubSeq(rest, 1, n)

StartsWithHttps(u) ==
  Len(u) >= Len(HttpsScheme) /\ SubSeq(u, 1, Len(HttpsScheme)) = HttpsScheme

Letters == Range(Upper) \cup Range(Lower)

ParseSucceeds(u) ==
  /\ StartsWithHttps(u)
  /\ UrlHostPart(u) # <<>>
  /\ Len(UrlHostPart(u)) < HostnameLen
  /\ UrlHostPart(u)[Len(UrlHostPart(u))] \in Letters

\* C9.  Hostname parsing: with no name-resolving proxy, startup enables
\* polling exactly when the URL starts with https://, its host part is not
\* empty, is shorter than the hostname length passed, and ends in a letter;
\* the hostname parsed is then that host part.  https://dns.google/resolve
\* gives dns.google with polling on, https://8.8.8.8/resolve gives polling
\* off, as does every host part ending in a digit.
C9_HostnameParsing ==
  (pc = "run" /\ proxy_supports_name_resolution(opt.curl_proxy) = 0) =>
    LET u == opt.resolver_url
    IN /\ app.using_dns_poller = 1 <=> ParseSucceeds(u)
       /\ app.using_dns_poller = 1 => hostname = UrlHostPart(u)
       /\ u = UrlDnsGoogle =>
            /\ app.using_dns_poller = 1
            /\ hostname = <<"d","n","s",".","g","o","o","g","l","e">>
       /\ u = UrlLiteral => app.using_dns_poller = 0
       /\ (StartsWithHttps(u) /\ UrlHostPart(u) # <<>>
             /\ UrlHostPart(u)[Len(UrlHostPart(u))] \in Range(Digit))
            => app.using_dns_poller = 0

\* https://dns.google/resolve was parsed and polling is on.
C9_Witness ==
  /\ pc = "run"
  /\ opt.resolver_url = UrlDnsGoogle
  /\ app.using_dns_poller = 1
  /\ hostname = <<"d","n","s",".","g","o","o","g","l","e">>

-----------------------------------------------------------------------------
(* The reactor under its scheduling assumptions: the transport delivers   *)
(* the completion of every fetch, main runs its cleanup to the end once    *)
(* ev_run has returned, and the process is not ended by a failed calloc.   *)
(* The poller reports fewer than MaxPolls results here.                    *)

LiveNext ==
  /\ Next
  /\ pc' # "aborted"
  /\ npolls' < MaxPolls

\* What is bound to happen: some outstanding completion is delivered, and
\* after ev_run returned the next cleanup call of main runs.
Progress ==
  \/ \E f \in 1..Len(fetches), buf \in RespBufs \cup {NULL} :
       FetchComplete(f, buf)
  \/ CleanupPoller
  \/ CleanupResolv
  \/ CleanupServer
  \/ CleanupHttps
  \/ LoopDestroy

Fairness == WF_vars(Progress)

SpecLive == Init /\ [][LiveNext]_vars /\ Fairness

\* C11.  Every dispatched query is eventually retired, never early: no
\* request_t is freed while its own fetch has not had its completion, and
\* every request_t that dns_server_cb created is eventually freed.
C11_EventuallyRetired ==
  /\ [](\A f \in Fetches : reqs[fetches[f].cb_data].frees > 0 => Done(f))
  /\ \A r \in 1..MaxQueries :
       (Len(reqs) >= r) ~> (Len(reqs) >= r /\ reqs[r].frees = 1)

\* In the running reactor one request was retired by a failed fetch and
\* another, created before it completed, is still pending.
C11_Witness ==
  /\ pc = "run"
  /\ \E f, g \in Fetches :
       /\ Done(f) /\ fetches[f].buf = NULL /\ reqs[f].frees = 1
       /\ ~Done(g) /\ reqs[g].frees = 0

\* Some poll result has been published: the heap holds every list node that
\* curl_slist_append ever made.
EverPublished == slist # <<>>

\* C12.  Gate opens for good: once a poll result has been published, no
\* later query is dropped by the bootstrap gate, whatever polls (including
\* polls whose list allocation fails) and queries follow; a query is
\* dropped only when no override has ever been published.
C12_GateOpensForGood ==
  [][(EverPublished /\ Len(bufs') = Len(bufs) + 1) => drops' = drops]_vars

\* Bootstrap polling is inactive, or it is active and the override holds a
\* published entry.
Ungated ==
  \/ app.using_dns_poller = 0
  \/ /\ app.resolv # NULL
     /\ SlistData(slist, app.resolv)[1] # NULLSTR

\* C13.  Dispatch when not gated: in a state where polling is inactive, or
\* active with a published entry, no step drops a query; a query handed to
\* dns_server_cb gets a request_t recording its transaction id, its source
\* address, its buffer and the server, and a fetch is issued with the
\* override current at that moment (NULL when polling is inactive).  The one
\* other outcome of the callback is the fatal exit of a failed calloc, which
\* ends the process with nothing recorded.
C13_DispatchWhenNotGated ==
  [][(pc = "run" /\ Ungated) =>
       /\ drops' = drops
       /\ Len(bufs') = Len(bufs) + 1 =>
            LET b == Len(bufs')
                r == Len(reqs')
                f == Len(fetches')
            IN /\ r = Len(reqs) + 1
               /\ f = Len(fetches) + 1
               /\ bufs'[b].frees = 0
               /\ \E d \in Datagrams :
                    /\ bufs'[b].bytes = d[2]
                    /\ reqs'[r].raddr = d[1]
                    /\ reqs'[r].tx_id = TxId(d[2])
               /\ reqs'[r].dns_req = b
               /\ reqs'[r].dns_server = "dns_server"
               /\ reqs'[r].frees = 0
               /\ fetches'[f].cb_data = r
               /\ fetches'[f].data = b
               /\ fetches'[f].resolv = app.resolv
               /\ fetches'[f].resolv_data = SlistData(slist, app.resolv)
               /\ app.using_dns_poller = 0 => fetches'[f].resolv = NULL
               /\ ~fetches'[f].done
       /\ pc' = "aborted" =>
            /\ bufs' = bufs /\ reqs' = reqs /\ fetches' = fetches
            /\ replies' = replies]_vars

\* With polling active and 8.8.8.8 published, the queries of two clients
\* are both in flight with that override, and nothing was dropped.
C13_Witness ==
  /\ pc = "run"
  /\ app.using_dns_poller = 1
  /\ drops = 0
  /\ \E f, g \in Fetches :
       /\ reqs[f].raddr # reqs[g].raddr
       /\ ~Done(f) /\ ~Done(g)
       /\ fetches[f].resolv # NULL
       /\ fetches[f].resolv_data = <<OverrideEntry(<<8, 8, 8, 8>>)>>
       /\ fetches[g].resolv_data = <<OverrideEntry(<<8, 8, 8, 8>>)>>

\* The cleanup calls of main in the order the claim gives.
ShutdownOrder ==
  <<"dns_poller_cleanup", "curl_slist_free_all", "dns_server_cleanup",
    "https_client_cleanup", "ev_loop_destroy">>

Pos(call) == CHOOSE i \in 1..Len(ShutdownOrder) : ShutdownOrder[i] = call

Called(call) == call \in Range(shutdown)

\* C14.  Shutdown order: no cleanup call is made while the reactor runs;
\* the calls made are in the order poller stopped, list released, UDP server
\* closed, HTTPS transport released, reactor destroyed, each at most once
\* and none before the one it follows; a poller that was started is stopped
\* first.
C14_ShutdownOrder ==
  /\ pc \in {"start", "run"} => shutdown = <<>>
  /\ \A i, j \in 1..Len(shutdown) :
       i < j => Pos(shutdown[i]) < Pos(shutdown[j])
  /\ Called("curl_slist_free_all") /\ poller.inited
       => Called("dns_poller_cleanup")
  /\ Called("dns_server_cleanup") => Called("curl_slist_free_all")
  /\ Called("https_client_cleanup") => Called("dns_server_cleanup")
  /\ Called("ev_loop_destroy") => Called("https_client_cleanup")
  /\ pc = "done" <=> Called("ev_loop_destroy")

\* A proxy with a running poller was interrupted and shut down completely.
C14_Witness ==
  /\ pc = "done"
  /\ poller.inited
  /\ npolls >= 1
  /\ shutdown = ShutdownOrder

\* ev_run has returned and main is in its cleanup, or past it.
Interrupted == pc \notin {"start", "run", "aborted"}

\* The step is the handling of a SIGPIPE: only the log line is new.
SigpipeOnlyLogged ==
  elog' # elog =>
    /\ pc = "run" /\ pc' = "run"
    /\ UNCHANGED <<opt, app, hostname, poller, slist, npolls, bufs, reqs,
                   fetches, replies, drops, uaf, shutdown>>

\* The step that leaves the running reactor for the cleanup changes nothing
\* else.
InterruptExits ==
  (pc = "run" /\ pc' \notin {"run", "aborted"}) =>
    /\ pc' = "stopped"
    /\ UNCHANGED <<opt, app, hostname, poller, slist, npolls, bufs, reqs,
                   fetches, replies, drops, uaf, shutdown, elog>>

\* No query callback and no poll callback runs in this step.
NoQueryNoPoll ==
  /\ Len(bufs') = Len(bufs) /\ drops' = drops
  /\ Len(reqs') = Len(reqs) /\ Len(fetches') = Len(fetches)
  /\ npolls' = npolls /\ app' = app /\ Len(slist') = Len(slist)

C16_PollerFrame ==
  [][npolls' # npolls =>
       /\ reqs' = reqs
       /\ bufs' = bufs
       /\ fetches' = fetches
       /\ replies' = replies
       /\ drops' = drops
       /\ app'.resolver_url = app.resolver_url
       /\ app'.using_dns_poller = app.using_dns_poller
       /\ pc' = pc
       /\ UNCHANGED <<opt, hostname, poller, uaf, shutdown, elog>>]_vars

\* A poll result arrived while a request was pending (its fetch was issued
\* before that poll) and a later poll found no memory; the request is
\* still pending and intact, polling is still active.
C16_Witness ==
  /\ pc = "run"
  /\ app.using_dns_poller = 1
  /\ app.resolv = NULL
  /\ \E f \in Fetches :
       /\ ~Done(f)
       /\ fetches[f].at_poll < npolls
       /\ reqs[f].frees = 0
       /\ bufs[reqs[f].dns_req].frees = 0
       /\ reqs[f].tx_id = TxId(bufs[reqs[f].dns_req].bytes)

\* C17.  Single writer of the override: while the reactor runs, every step
\* that is not a poll result (a query, dropped or dispatched, a fetch
\* completion, success or failure, a signal) leaves the override, the list
\* and the rest of app unchanged.
C17_SingleWriter ==
  [][(pc = "run" /\ npolls' = npolls) => (app' = app /\ slist' = slist)]_vars

\* With an override published, one query had been dropped before it, one
\* was dispatched with it and has completed; the override is the list that
\* was handed to that fetch, still unfreed.
C17_Witness ==
  /\ pc = "run"
  /\ drops >= 1
  /\ app.resolv # NULL
  /\ slist[app.resolv].frees = 0
  /\ \E f \in Fetches : Done(f) /\ fetches[f].resolv = app.resolv

\* C18.  Override outlives the fetches that hold it: the list handed to
\* https_client_fetch for a query is not freed, by a later dns_poll_cb or by
\* the shutdown cleanup, before that query's completion callback has run.
C18_OverrideOutlivesFetches ==
  \A f \in Fetches :
    (~Done(f) /\ fetches[f].resolv # NULL) =>
      slist[fetches[f].resolv].frees = 0

\* C19.  Poller cleanup matches poller start: dns_poller_cleanup is never
\* called on a poller that dns_poller_init did not start, and once main is
\* past lines 225-227 it has been called exactly when the poller had been
\* started.
C19_CleanupMatchesInit ==
  /\ poller.cleanups > 0 => poller.inited
  /\ pc \in {"free_resolv", "server_cleanup", "https_cleanup",
             "loop_destroy", "done"}
       => (poller.cleanups = 1 <=> poller.inited)

\* The entries of the published override.
Published == Range(SlistData(slist, app.resolv))

\* C20.  Override entry always fits: for every accepted hostname (1 to 253
\* characters) and every IPv4 or IPv6 address, the hostname-too-long branch
\* of dns_poll_cb is not taken and the published entry is hostname:443:
\* followed by the complete text of the address.
C20_EntryAlwaysFits ==
  /\ pc # "aborted"
  /\ \A e \in Published :
       \E a \in WidePollAddrs :
         e = hostname \o PortInfix \o AddrText(a.af, a.addr)

====
